---- MODULE Spec2Model ----
\* Session lifecycle of WebsocketClientApp (client/src/app.ts): the connection
\* toggle, connect(), disconnect(), toggleMicrophone() and the transport
\* callbacks, as a state machine over the fields of the app object, the DOM
\* elements it writes and the RTVIClient objects it creates.
\*
\* JavaScript runs each handler to completion, so one action is one
\* synchronous run: a click handler up to its first await, or the
\* continuation of an await up to the next one.  The transport library
\* (RTVIClient / WebSocketTransport) is outside the repository; each promise
\* it returns may resolve or reject, at any later time.
EXTENDS Integers, Sequences, FiniteSets, TLC

\* ------------------------------------------------------------------ bounds
MaxClicks == 5     \* clicks on the connection button in one run
MaxTracks == 2     \* media tracks the transport hands to the listeners
MediaClicks == 3   \* clicks on the connection button in a run with track events
OverlapClicks == 5 \* the same, in a run with two sessions open at once
ConfigClicks == 3  \* clicks on the connection button in a run with a configuration
InterruptClicks == 2 \* clicks in a run that interrupts a connect attempt

\* RTVIClient objects in use at once.  The handle is cleared only by a
\* disconnect() continuation, so k sessions take k connecting clicks and k - 1
\* disconnecting ones: within MaxClicks clicks a free slot always exists.
MaxSessions == (MaxClicks + 1) \div 2

Null == 0          \* rtviClient = null
Sessions == 1..MaxSessions

VARIABLES
  rtviClient,      \* this.rtviClient: Null or the id of an RTVIClient
  audioContext,    \* this.audioContext is non-null
  openContexts,    \* AudioContext objects created and not closed
  apiKey,          \* this.apiKeyInput.value
  dom,             \* the elements the app writes (status dot, texts, buttons)
  transport,       \* per session: "none" (not built, or released), "idle", "connected"
  localAudio,      \* rtviClient.tracks().local.audio: "absent", "enabled", "disabled"
  connectTask,     \* per session: where the connect() call that built it is suspended
  disconnectTask,  \* per session: disconnect() calls suspended at line 315
  lastOp,          \* the handler or continuation that ran last
  obs,             \* the connection-status texts the last run wrote, after the one it found
  micBefore,       \* enabled flag found by the last toggleMicrophone() that flipped it
  clicks,          \* clicks on the connection button so far
  botAudio,        \* track of the stream in #bot-audio's srcObject, or NoTrack
  remoteAudio,     \* rtviClient.tracks().bot.audio, or NoTrack
  lastRemote,      \* the non-local audio track whose track-started event came last
  listeners,       \* sessions whose client has the two track listeners attached
  activeTab,       \* this.activeTab
  systemPrompt,    \* window.systemPrompt: Undefined or a text
  configTask,      \* loadDefaultConfiguration(): "pending" or "settled"
  connectUrl       \* endpoints.connect of the RTVIClient connect() built last

vars == <<rtviClient, audioContext, openContexts, apiKey, dom, transport,
          localAudio, connectTask, disconnectTask, lastOp, obs, micBefore,
          clicks, botAudio, remoteAudio, lastRemote, listeners, activeTab,
          systemPrompt, configTask, connectUrl>>

\* What the track events and the bot-ready callback read and write.
media == <<botAudio, remoteAudio, lastRemote>>

\* What the variant radios and loadDefaultConfiguration() write.
config == <<activeTab, systemPrompt, configTask>>

\* --------------------------------------------------------- DOM projections
UpdateConnectionStatus(d, status) ==
  IF status = "connected"
  THEN [d EXCEPT !.statusDot = TRUE, !.connectionStatus = "Connected"]
  ELSE [d EXCEPT !.statusDot = FALSE,
                 !.connectionStatus = IF status = "connecting" THEN "Connecting..."
                                                               ELSE "Not Connected"]

UpdateStatusText(d, text) == [d EXCEPT !.statusText = text]

\* The Connection Status of the specification is what the indicator shows.
StatusOf(text) ==
  CASE text = "Connected" -> "Connected"
    [] text = "Connecting..." -> "Connecting"
    [] OTHER -> "Disconnected"

Status == StatusOf(dom.connectionStatus)

OnConnected(d) ==
  [UpdateStatusText(UpdateConnectionStatus(d, "connected"),
                    "Connected! Click microphone to start")
     EXCEPT !.connectBtnChat = "Disconnect", !.micDisabled = FALSE]

OnDisconnected(d) ==
  [UpdateStatusText(UpdateConnectionStatus(d, "disconnected"), "Disconnected")
     EXCEPT !.connectBtnChat = "Connect", !.micDisabled = TRUE, !.micActive = FALSE]

\* connect(), line 200: the first status write, before the credential is read.
ConnectPrologue(d) == UpdateConnectionStatus(d, "connecting")

\* The empty-credential return without its status write.
NoKeyEpilogue_NoRevert(d) == UpdateStatusText(d, "Please enter API key")

\* connect(), lines 206-211: the empty-credential return.
NoKeyEpilogue(d) ==
  UpdateStatusText(UpdateConnectionStatus(d, "disconnected"), "Please enter API key")

\* A catch block that reports the failure and leaves the indicator alone.
CatchStatus_KeepsIndicator(d) == UpdateStatusText(d, "Connection failed")

\* connect(), lines 299-301: the catch block's status writes.
CatchStatus(d) ==
  UpdateStatusText(UpdateConnectionStatus(d, "disconnected"), "Connection failed")

\* A toggle that writes the flag back as it found it.
FlipEnabled_Stuck(e) == e

\* toggleMicrophone(), line 145.
FlipEnabled(e) == IF e = "enabled" THEN "disabled" ELSE "enabled"

\* connect(), lines 290-294: mute the local audio track when there is one.
MuteByDefault(e) == IF e = "absent" THEN "absent" ELSE "disabled"

\* A warning shown in the status line instead of logged.
MicWarning_ShowsText(d) == UpdateStatusText(d, "Please connect first")

\* toggleMicrophone(), lines 137-140: the warning is logged, nothing is written.
MicWarning(d) == d

\* An unmute that also marks the indicator connected.
MicFeedback_SetsIndicator(d, wasEnabled) ==
  IF ~wasEnabled
  THEN [UpdateStatusText(UpdateConnectionStatus(d, "connected"), "Listening...")
          EXCEPT !.micActive = TRUE]
  ELSE [UpdateStatusText(d, "Microphone muted") EXCEPT !.micActive = FALSE]

\* toggleMicrophone(), lines 147-155: button class and status text.
MicFeedback(d, wasEnabled) ==
  IF ~wasEnabled
  THEN [UpdateStatusText(d, "Listening...") EXCEPT !.micActive = TRUE]
  ELSE [UpdateStatusText(d, "Microphone muted") EXCEPT !.micActive = FALSE]

\* ------------------------------------------------- connection descriptor
\* A string is the sequence of the pieces it is concatenated from; a text that
\* is encoded is a sequence of characters.
Undefined == [defined |-> FALSE, text |-> <<>>]
Text(t) == [defined |-> TRUE, text |-> t]

\* Characters encodeURIComponent leaves as they are (those the texts use).
Unreserved ==
  {"a", "b", "c", "e", "i", "n", "o", "s", "B", "0", "1", "-", "_", ".", "~"}

\* encodeURIComponent on one character: the UTF-8 byte in hexadecimal.
EncodeChar(c) ==
  CASE c \in Unreserved -> c
    [] c = " " -> "%20"
    [] c = "&" -> "%26"
    [] c = "=" -> "%3D"
    [] c = "%" -> "%25"
    [] c = "?" -> "%3F"

RECURSIVE EncodeURIComponent(_)
EncodeURIComponent(t) ==
  IF t = <<>> THEN <<>> ELSE <<EncodeChar(Head(t))>> \o EncodeURIComponent(Tail(t))

\* connect(), line 214: window.systemPrompt || "".
SystemInstructions(prompt) == IF prompt.defined THEN prompt.text ELSE <<>>

\* The two variants with their templates the other way round.
VariantParams_Swapped(tab) ==
  IF tab # "tts-llm-stt"
  THEN <<"&tts_voice=en-US-Chirp3-HD-Aoede", "&tts_pace=1.0",
         "&llm_model=gemini-2.5-flash-lite-preview-06-17", "&stt_model=chirp_3",
         "&stt_language=en-IN">>
  ELSE <<"&model=gemini-live-2.5-flash-preview", "&voice=Custom-Female",
         "&language=hi-IN", "&tts=true", "&tts_pace=1.0">>

\* connect(), lines 217-229: the parameters of the selected variant.
VariantParams(tab) ==
  IF tab = "tts-llm-stt"
  THEN <<"&tts_voice=en-US-Chirp3-HD-Aoede", "&tts_pace=1.0",
         "&llm_model=gemini-2.5-flash-lite-preview-06-17", "&stt_model=chirp_3",
         "&stt_language=en-IN">>
  ELSE <<"&model=gemini-live-2.5-flash-preview", "&voice=Custom-Female",
         "&language=hi-IN", "&tts=true", "&tts_pace=1.0">>

\* The instruction parameter appended without the test of line 231.
InstructionParam_Always(text) == <<"&system_instruction=">> \o EncodeURIComponent(text)

\* connect(), lines 231-233.
InstructionParam(text) ==
  IF text # <<>> THEN <<"&system_instruction=">> \o EncodeURIComponent(text) ELSE <<>>

\* A descriptor built from the variant the field starts with (line 20).
BuildConnectUrl_InitialTab(tab, key, prompt) ==
  <<"/connect?bot_type=", "tts-llm-stt", "&api_key=", key>>
    \o VariantParams("tts-llm-stt")
    \o InstructionParam(SystemInstructions(prompt))

\* connect(), lines 213-233: connectUrl.
BuildConnectUrl(tab, key, prompt) ==
  <<"/connect?bot_type=", tab, "&api_key=", key>>
    \o VariantParams(tab)
    \o InstructionParam(SystemInstructions(prompt))

\* ------------------------------------------------------------------ tracks
NoTrack == 0
Tracks == 1..MaxTracks

\* A setupTrackListeners() that returns before it attaches anything.
SetupTrackListeners_Skips(h) == {}

\* setupTrackListeners(), lines 170-183, called with the handle h: the sessions
\* that get the track-started and track-stopped listeners.
SetupTrackListeners(h) == IF h = Null THEN {} ELSE {h}

\* A listener that forgets the kind of the track.
NonLocalAudio_AnyKind(kind, who) == who # "local"

\* The test of both listeners: !participant?.local && track.kind === "audio".
NonLocalAudio(kind, who) == who # "local" /\ kind = "audio"

\* setupAudioTrack(), lines 186-194: the element's srcObject after the call.
SetupAudioTrack(bound, track) == track

\* The microphone button as the page declares it: enabled only while
\* connected, so disabled when the page loads.
MicButtonInitiallyDisabled == TRUE

Idle == [pc |-> "none", target |-> Null]
Done == Idle

\* An RTVIClient object the program can still reach: through the handle, a
\* suspended call, or a transport that was opened and not released.
InUse(t) ==
  \/ rtviClient = t
  \/ transport[t] \in {"idle", "connected"}
  \/ connectTask[t].pc # "none"
  \/ \E s \in Sessions : connectTask[s].target = t
  \/ disconnectTask[t] > 0

FreeSlots == {t \in Sessions : ~InUse(t)}

\* -------------------------------------------------------------------- Init
Init ==
  /\ rtviClient = Null
  /\ audioContext = FALSE
  /\ openContexts = 0
  /\ apiKey = ""
  /\ dom = [statusDot |-> FALSE, connectionStatus |-> "Not Connected", statusText |-> "",
            connectBtnChat |-> "Connect", micDisabled |-> MicButtonInitiallyDisabled,
            micActive |-> FALSE]
  /\ transport = [s \in Sessions |-> "none"]
  /\ localAudio = "absent"
  /\ connectTask = [s \in Sessions |-> Idle]
  /\ disconnectTask = [s \in Sessions |-> 0]
  /\ lastOp = "init"
  /\ obs = <<"Not Connected">>
  /\ micBefore = "absent"
  /\ clicks = 0
  /\ botAudio = NoTrack
  /\ remoteAudio = NoTrack
  /\ lastRemote = NoTrack
  /\ listeners = {}
  /\ activeTab = "tts-llm-stt"
  /\ systemPrompt = Undefined
  /\ configTask = "pending"
  /\ connectUrl = <<>>

\* A run that writes no connection status.
Quiet(op) ==
  /\ lastOp' = op
  /\ obs' = <<dom.connectionStatus>>
  /\ micBefore' = "absent"

\* ------------------------------------------------------------- user input
\* The user edits the credential field.
SetApiKey ==
  /\ \E k \in {"", "abc123"} : k # apiKey /\ apiKey' = k
  /\ Quiet("setApiKey")
  /\ UNCHANGED <<media, listeners, config, connectUrl, clicks, rtviClient, audioContext, openContexts, dom, transport,
                 localAudio, connectTask, disconnectTask>>

\* ---------------------------------------------------------------- connect
\* connect() with an empty credential: lines 198-211.
ConnectNoKey ==
  /\ apiKey = ""
  /\ audioContext' = TRUE
  /\ openContexts' = openContexts + 1
  /\ dom' = NoKeyEpilogue(ConnectPrologue(dom))
  /\ obs' = <<dom.connectionStatus, ConnectPrologue(dom).connectionStatus,
              dom'.connectionStatus>>
  /\ lastOp' = "connectNoKey"
  /\ micBefore' = "absent"
  /\ UNCHANGED <<media, listeners, config, connectUrl, rtviClient, apiKey, transport, localAudio, connectTask,
                 disconnectTask>>

\* connect() when new RTVIClient(...) throws: lines 198-284, then the catch
\* block, which finds the handle as it was on entry.
ConnectCtorFails ==
  /\ apiKey # ""
  /\ audioContext' = TRUE
  /\ openContexts' = openContexts + 1
  /\ dom' = CatchStatus(ConnectPrologue(dom))
  /\ obs' = <<dom.connectionStatus, ConnectPrologue(dom).connectionStatus,
              dom'.connectionStatus>>
  /\ lastOp' = "connectCtorFails"
  /\ micBefore' = "absent"
  /\ UNCHANGED <<media, listeners, config, connectUrl, rtviClient, apiKey, transport, localAudio, connectTask,
                 disconnectTask>>

\* connect() up to its first await: lines 198-288.  A new RTVIClient becomes
\* the handle, the track listeners are attached and initDevices() is called.
ConnectStart ==
  /\ apiKey # ""
  /\ FreeSlots # {}
  /\ LET s == CHOOSE f \in FreeSlots : \A g \in FreeSlots : f <= g IN
       /\ rtviClient' = s
       /\ transport' = [transport EXCEPT ![s] = "idle"]
       /\ localAudio' = "absent"
       /\ connectTask' = [connectTask EXCEPT ![s] = [pc |-> "initDevices", target |-> s]]
       /\ listeners' = listeners \cup SetupTrackListeners(s)
  /\ remoteAudio' = NoTrack
  /\ connectUrl' = BuildConnectUrl(activeTab, apiKey, systemPrompt)
  /\ audioContext' = TRUE
  /\ openContexts' = openContexts + 1
  /\ dom' = ConnectPrologue(dom)
  /\ obs' = <<dom.connectionStatus, dom'.connectionStatus>>
  /\ lastOp' = "connectStart"
  /\ micBefore' = "absent"
  /\ UNCHANGED <<botAudio, lastRemote, config, apiKey, disconnectTask>>

Connect == ConnectStart \/ ConnectNoKey \/ ConnectCtorFails

\* The catch block of connect(), lines 298-309, entered by the connect() call
\* that built session s: the status is written, and a disconnect() of
\* whatever the handle is now is awaited.
Catch(s, op) ==
  /\ dom' = CatchStatus(dom)
  /\ obs' = <<dom.connectionStatus, dom'.connectionStatus>>
  /\ connectTask' = [connectTask EXCEPT ![s] =
       IF rtviClient # Null THEN [pc |-> "cleanup", target |-> rtviClient] ELSE Done]
  /\ lastOp' = op
  /\ micBefore' = "absent"

\* initDevices() resolves; lines 290-297 run.  The continuation reads
\* this.rtviClient again: null throws a TypeError into the catch block.
InitDevicesResolved(s) ==
  /\ connectTask[s].pc = "initDevices"
  /\ \E hasMic \in BOOLEAN :
       LET tracks == IF s = rtviClient /\ hasMic THEN "enabled" ELSE localAudio IN
       IF rtviClient = Null
       THEN /\ UNCHANGED localAudio
            /\ Catch(s, "connectFailed")
       ELSE /\ localAudio' = MuteByDefault(tracks)
            /\ connectTask' = [connectTask EXCEPT ![s] = [pc |-> "open", target |-> rtviClient]]
            /\ Quiet("devicesReady")
            /\ UNCHANGED dom
  /\ UNCHANGED <<media, listeners, config, connectUrl, clicks, rtviClient, audioContext, openContexts, apiKey, transport,
                 disconnectTask>>

\* initDevices() rejects.
InitDevicesRejected(s) ==
  /\ connectTask[s].pc = "initDevices"
  /\ Catch(s, "connectFailed")
  /\ UNCHANGED <<media, listeners, config, connectUrl, clicks, rtviClient, audioContext, openContexts, apiKey, transport,
                 localAudio, disconnectTask>>

\* The transport of the session being opened connects: callbacks.onConnected,
\* lines 246-255.  The promise of rtviClient.connect() is still pending.
TransportConnected(s) ==
  /\ connectTask[s].pc = "open"
  /\ transport[connectTask[s].target] = "idle"
  /\ transport' = [transport EXCEPT ![connectTask[s].target] = "connected"]
  /\ connectTask' = [connectTask EXCEPT ![s].pc = "opened"]
  /\ dom' = OnConnected(dom)
  /\ obs' = <<dom.connectionStatus, dom'.connectionStatus>>
  /\ lastOp' = "onConnected"
  /\ micBefore' = "absent"
  /\ UNCHANGED <<media, listeners, config, connectUrl, clicks, rtviClient, audioContext, openContexts, apiKey, localAudio,
                 disconnectTask>>

\* rtviClient.connect() resolves: connect() returns (line 297 is its last).
OpenResolved(s) ==
  /\ connectTask[s].pc = "opened"
  /\ connectTask' = [connectTask EXCEPT ![s] = Done]
  /\ Quiet("connectReturned")
  /\ UNCHANGED <<media, listeners, config, connectUrl, clicks, rtviClient, audioContext, openContexts, apiKey, dom, transport,
                 localAudio, disconnectTask>>

\* rtviClient.connect() rejects, before or after the transport connected.
OpenRejected(s) ==
  /\ connectTask[s].pc \in {"open", "opened"}
  /\ Catch(s, "connectFailed")
  /\ UNCHANGED <<media, listeners, config, connectUrl, clicks, rtviClient, audioContext, openContexts, apiKey, transport,
                 localAudio, disconnectTask>>

\* The transport's disconnect() completing on session t: the session is
\* released, and callbacks.onDisconnected (lines 256-267) runs when the
\* transport was connected; for one that never connected it may or may not.
Released(t, d, fire) ==
  IF transport[t] = "connected" \/ fire THEN OnDisconnected(d) ELSE d

\* The disconnect() awaited by the catch block resolves (line 304).
CleanupResolved(s) ==
  /\ connectTask[s].pc = "cleanup"
  /\ \E fire \in BOOLEAN : dom' = Released(connectTask[s].target, dom, fire)
  /\ transport' = [transport EXCEPT ![connectTask[s].target] = "none"]
  /\ connectTask' = [connectTask EXCEPT ![s] = Done]
  /\ obs' = <<dom.connectionStatus, dom'.connectionStatus>>
  /\ listeners' = listeners \ {connectTask[s].target}
  /\ lastOp' = "cleanupDone"
  /\ micBefore' = "absent"
  /\ UNCHANGED <<media, config, connectUrl, clicks, rtviClient, audioContext, openContexts, apiKey, localAudio,
                 disconnectTask>>

\* The disconnect() awaited by the catch block rejects (lines 305-307).
CleanupRejected(s) ==
  /\ connectTask[s].pc = "cleanup"
  /\ connectTask' = [connectTask EXCEPT ![s] = Done]
  /\ Quiet("cleanupFailed")
  /\ UNCHANGED <<media, listeners, config, connectUrl, clicks, rtviClient, audioContext, openContexts, apiKey, dom, transport,
                 localAudio, disconnectTask>>

\* ------------------------------------------------------------- disconnect
\* disconnect() up to its await: lines 313-315.
Disconnect ==
  /\ rtviClient # Null
  /\ disconnectTask' = [disconnectTask EXCEPT ![rtviClient] = @ + 1]
  /\ Quiet("disconnect")
  /\ UNCHANGED <<media, listeners, config, connectUrl, rtviClient, audioContext, openContexts, apiKey, dom, transport,
                 localAudio, connectTask>>

\* rtviClient.disconnect() resolves; lines 316-320 run.
DisconnectResolved(t) ==
  /\ disconnectTask[t] > 0
  /\ disconnectTask' = [disconnectTask EXCEPT ![t] = @ - 1]
  /\ \E fire \in BOOLEAN : dom' = Released(t, dom, fire)
  /\ transport' = [transport EXCEPT ![t] = "none"]
  /\ rtviClient' = Null
  /\ audioContext' = FALSE
  /\ openContexts' = IF audioContext THEN openContexts - 1 ELSE openContexts
  /\ obs' = <<dom.connectionStatus, dom'.connectionStatus>>
  /\ lastOp' = "disconnectDone"
  /\ micBefore' = "absent"
  /\ localAudio' = "absent"
  /\ remoteAudio' = NoTrack
  /\ listeners' = listeners \ {t}
  /\ UNCHANGED <<botAudio, lastRemote, config, connectUrl, clicks, apiKey, connectTask>>

\* rtviClient.disconnect() rejects; the catch block of lines 321-323 logs.
DisconnectRejected(t) ==
  /\ disconnectTask[t] > 0
  /\ disconnectTask' = [disconnectTask EXCEPT ![t] = @ - 1]
  /\ Quiet("disconnectFailed")
  /\ UNCHANGED <<media, listeners, config, connectUrl, clicks, rtviClient, audioContext, openContexts, apiKey, dom, transport,
                 localAudio, connectTask>>

\* The click handler of the connection button, lines 128-134.
ToggleConnection ==
  /\ clicks < MaxClicks
  /\ clicks' = clicks + 1
  /\ IF rtviClient # Null THEN Disconnect ELSE Connect

\* The transport ends a connected session by itself: callbacks.onDisconnected.
TransportDropped(t) ==
  /\ transport[t] = "connected"
  /\ transport' = [transport EXCEPT ![t] = "none"]
  /\ dom' = OnDisconnected(dom)
  /\ obs' = <<dom.connectionStatus, dom'.connectionStatus>>
  /\ listeners' = listeners \ {t}
  /\ lastOp' = "onDisconnected"
  /\ micBefore' = "absent"
  /\ UNCHANGED <<media, config, connectUrl, clicks, rtviClient, audioContext, openContexts, apiKey, localAudio,
                 connectTask, disconnectTask>>

\* ------------------------------------------------------------- microphone
\* The click handler of the microphone button, lines 136-159.  A disabled
\* button delivers no click.
ToggleMicrophone ==
  /\ ~dom.micDisabled
  /\ IF rtviClient = Null
     THEN /\ Quiet("micNoSession")
          /\ dom' = MicWarning(dom)
          /\ UNCHANGED localAudio
     ELSE IF localAudio = "absent"
     THEN /\ Quiet("micNoTrack")
          /\ UNCHANGED <<localAudio, dom>>
     ELSE /\ localAudio' = FlipEnabled(localAudio)
          /\ dom' = MicFeedback(dom, localAudio = "enabled")
          /\ micBefore' = localAudio
          /\ lastOp' = "toggleMic"
          /\ obs' = <<dom.connectionStatus>>
  /\ UNCHANGED <<media, listeners, config, connectUrl, clicks, rtviClient, audioContext, openContexts, apiKey, transport,
                 connectTask, disconnectTask>>

\* ----------------------------------------------------------- track events
\* What the transport does not reach: the fields of a track event's handler.
SessionState == <<rtviClient, audioContext, openContexts, apiKey, transport, localAudio,
                  connectTask, disconnectTask, clicks, listeners, connectUrl>>

Kinds == {"audio", "video"}

\* The participant of a track event: the local one, the bot, or none given.
Participants == {"local", "bot", "none"}

\* What an event is, whatever the listener makes of it.
EventClass(kind, who) ==
  IF who = "local" THEN "local" ELSE IF kind # "audio" THEN "nonAudio" ELSE "remoteAudio"

StartedOp(kind, who) ==
  CASE EventClass(kind, who) = "local" -> "trackStarted.local"
    [] EventClass(kind, who) = "nonAudio" -> "trackStarted.nonAudio"
    [] OTHER -> "trackStarted.remoteAudio"

StoppedOp(kind, who) ==
  CASE EventClass(kind, who) = "local" -> "trackStopped.local"
    [] EventClass(kind, who) = "nonAudio" -> "trackStopped.nonAudio"
    [] OTHER -> "trackStopped.remoteAudio"

\* Line 175.
SpeakingText(d) == UpdateStatusText(d, "Bot is speaking...")

\* A track-stopped listener that takes the end of the track for the end of
\* the session.
ReadyText_Disconnects(d) == OnDisconnected(d)

\* Line 181.
ReadyText(d) == UpdateStatusText(d, "Ready")

\* A session whose transport is open emits track-started; the listener of
\* lines 172-177 runs when the session has one.  The library has put a bot
\* audio track into the track table of its client before it emits.
TrackStarted(t, track, kind, who) ==
  /\ t \in listeners
  /\ transport[t] = "connected" \/ (who = "local" /\ transport[t] = "idle")
  /\ remoteAudio' = IF t = rtviClient /\ NonLocalAudio(kind, who) THEN track ELSE remoteAudio
  /\ IF NonLocalAudio(kind, who)
     THEN /\ botAudio' = SetupAudioTrack(botAudio, track)
          /\ dom' = SpeakingText(dom)
     ELSE UNCHANGED <<botAudio, dom>>
  /\ lastRemote' = IF EventClass(kind, who) = "remoteAudio" THEN track ELSE lastRemote
  /\ Quiet(StartedOp(kind, who))
  /\ UNCHANGED <<SessionState, config>>

\* The transport emits track-stopped: the listener of lines 179-183.
TrackStopped(t, track, kind, who) ==
  /\ t \in listeners
  /\ transport[t] = "connected" \/ (who = "local" /\ transport[t] = "idle")
  /\ remoteAudio' = IF t = rtviClient /\ NonLocalAudio(kind, who) /\ remoteAudio = track
                    THEN NoTrack ELSE remoteAudio
  /\ dom' = IF NonLocalAudio(kind, who) THEN ReadyText(dom) ELSE dom
  /\ Quiet(StoppedOp(kind, who))
  /\ UNCHANGED <<SessionState, config, botAudio, lastRemote>>

\* callbacks.onBotReady, lines 268-271, with setupMediaTracks(), lines 161-167,
\* which reads the track table of whatever the handle is.
BotReady(t) ==
  /\ transport[t] = "connected"
  /\ botAudio' = IF rtviClient # Null /\ remoteAudio # NoTrack
                 THEN SetupAudioTrack(botAudio, remoteAudio) ELSE botAudio
  /\ Quiet("botReady")
  /\ UNCHANGED <<SessionState, config, dom, remoteAudio, lastRemote>>

\* ------------------------------------------------- errors and messages
\* An error callback that takes the error for the end of the session.
ErrorLogged_Disconnects(d) == OnDisconnected(d)

\* callbacks.onMessageError and callbacks.onError, lines 278-280: the error is
\* logged, nothing is written.
ErrorLogged(d) == d

\* The type field of a generic message.
MessageTypes == {"transcription", "other"}

\* callbacks.onGenericMessage, lines 272-277: a transcription is logged, any
\* other message is dropped.
MessageLogged(d, type) == d

\* The transport reports an error on a session it has open: callbacks.onError.
OnError(t) ==
  /\ transport[t] \in {"idle", "connected"}
  /\ dom' = ErrorLogged(dom)
  /\ Quiet("onError")
  /\ UNCHANGED <<SessionState, config, media>>

\* The transport reports a message error: callbacks.onMessageError.
OnMessageError(t) ==
  /\ transport[t] = "connected"
  /\ dom' = ErrorLogged(dom)
  /\ Quiet("onMessageError")
  /\ UNCHANGED <<SessionState, config, media>>

\* The transport delivers a generic message: callbacks.onGenericMessage.
OnGenericMessage(t, type) ==
  /\ transport[t] = "connected"
  /\ dom' = MessageLogged(dom, type)
  /\ Quiet("onGenericMessage")
  /\ UNCHANGED <<SessionState, config, media>>

\* ---------------------------------------------------------- configuration
BotTypes == {"tts-llm-stt", "gemini-live"}

Texts == {<<>>, <<"B", "e", " ", "c", "o", "n", "c", "i", "s", "e">>, <<"a", "&", "b", "=", "1">>}

\* The change listener of a bot-type radio, lines 66-74; the radio that
\* changed is the checked one.
SelectBotType(v) ==
  /\ activeTab' = v
  /\ Quiet("selectBotType")
  /\ UNCHANGED <<SessionState, media, dom, systemPrompt, configTask>>

\* loadDefaultConfiguration(), lines 96-100: the fetch and its JSON resolve;
\* data.system_prompt is a text, or undefined when the reply has none.
ConfigLoaded(prompt) ==
  /\ configTask = "pending"
  /\ configTask' = "settled"
  /\ systemPrompt' = prompt
  /\ Quiet("configLoaded")
  /\ UNCHANGED <<SessionState, media, dom, activeTab>>

\* loadDefaultConfiguration(), lines 101-103: the fetch or its JSON rejects.
ConfigFailed ==
  /\ configTask = "pending"
  /\ configTask' = "settled"
  /\ Quiet("configFailed")
  /\ UNCHANGED <<SessionState, media, dom, activeTab, systemPrompt>>

\* -------------------------------------------------------------------- Next
Next ==
  \/ SetApiKey
  \/ ToggleConnection
  \/ ToggleMicrophone
  \/ \E s \in Sessions : InitDevicesResolved(s)
  \/ \E s \in Sessions : InitDevicesRejected(s)
  \/ \E s \in Sessions : TransportConnected(s)
  \/ \E s \in Sessions : OpenResolved(s)
  \/ \E s \in Sessions : OpenRejected(s)
  \/ \E s \in Sessions : CleanupResolved(s)
  \/ \E s \in Sessions : CleanupRejected(s)
  \/ \E t \in Sessions : DisconnectRejected(t)
  \/ \E t \in Sessions : DisconnectResolved(t)
  \/ \E t \in Sessions : TransportDropped(t)

Spec == Init /\ [][Next]_vars

\* The session with its track events and bot-ready callbacks: the credential
\* is typed once, every transport promise resolves, and the connection button
\* is clicked at most limit times.
MediaStep(limit) ==
  \/ apiKey = "" /\ SetApiKey
  \/ clicks < limit /\ ToggleConnection
  \/ ToggleMicrophone
  \/ \E s \in Sessions : InitDevicesResolved(s)
  \/ \E s \in Sessions : TransportConnected(s)
  \/ \E s \in Sessions : OpenResolved(s)
  \/ \E t \in Sessions : DisconnectResolved(t)
  \/ \E t \in Sessions : TransportDropped(t)
  \/ \E t \in Sessions, track \in Tracks, kind \in Kinds, who \in Participants :
       TrackStarted(t, track, kind, who)
  \/ \E t \in Sessions, track \in Tracks, kind \in Kinds, who \in Participants :
       TrackStopped(t, track, kind, who)
  \/ \E t \in Sessions : BotReady(t)

NextMedia == MediaStep(MediaClicks)

SpecMedia == Init /\ [][NextMedia]_vars

\* The same with enough clicks for two sessions to be open at once.
NextOverlap == MediaStep(OverlapClicks)

SpecOverlap == Init /\ [][NextOverlap]_vars

\* The session with its track events and the error and message callbacks.
NextErrors ==
  \/ NextMedia
  \/ \E t \in Sessions : OnError(t)
  \/ \E t \in Sessions : OnMessageError(t)
  \/ \E t \in Sessions, type \in MessageTypes : OnGenericMessage(t, type)

SpecErrors == Init /\ [][NextErrors]_vars

\* One connect attempt and the click that interrupts it: the credential is
\* typed once, every transport promise may resolve or reject.
NextInterrupt ==
  \/ apiKey = "" /\ SetApiKey
  \/ clicks < InterruptClicks /\ ToggleConnection
  \/ \E s \in Sessions : InitDevicesResolved(s)
  \/ \E s \in Sessions : InitDevicesRejected(s)
  \/ \E s \in Sessions : TransportConnected(s)
  \/ \E s \in Sessions : OpenResolved(s)
  \/ \E s \in Sessions : OpenRejected(s)
  \/ \E s \in Sessions : CleanupResolved(s)
  \/ \E s \in Sessions : CleanupRejected(s)
  \/ \E t \in Sessions : DisconnectRejected(t)
  \/ \E t \in Sessions : DisconnectResolved(t)
  \/ \E t \in Sessions : TransportDropped(t)

\* Every promise the transport returned is settled in the end: initDevices()
\* (line 288), connect() (297) and the two disconnect() calls (304, 315).
TransportSettles ==
  \A s \in Sessions :
    /\ WF_vars(InitDevicesResolved(s) \/ InitDevicesRejected(s))
    /\ WF_vars(TransportConnected(s) \/ OpenResolved(s) \/ OpenRejected(s))
    /\ WF_vars(CleanupResolved(s) \/ CleanupRejected(s))
    /\ WF_vars(DisconnectResolved(s) \/ DisconnectRejected(s))

SpecSettle == Init /\ [][NextInterrupt]_vars /\ TransportSettles

\* The session with the variant radios and the configuration fetch, within
\* ConfigClicks clicks on the connection button.
NextConfig ==
  \/ SetApiKey
  \/ clicks < ConfigClicks /\ ToggleConnection
  \/ \E s \in Sessions : InitDevicesResolved(s)
  \/ \E s \in Sessions : InitDevicesRejected(s)
  \/ \E s \in Sessions : TransportConnected(s)
  \/ \E s \in Sessions : OpenResolved(s)
  \/ \E s \in Sessions : OpenRejected(s)
  \/ \E s \in Sessions : CleanupResolved(s)
  \/ \E s \in Sessions : CleanupRejected(s)
  \/ \E t \in Sessions : DisconnectRejected(t)
  \/ \E t \in Sessions : DisconnectResolved(t)
  \/ \E t \in Sessions : TransportDropped(t)
  \/ \E v \in BotTypes : SelectBotType(v)
  \/ \E p \in {Undefined} \cup {Text(x) : x \in Texts} : ConfigLoaded(p)
  \/ ConfigFailed

SpecConfig == Init /\ [][NextConfig]_vars

\* ================================================================== claims
ConnectOps == {"connectNoKey", "connectCtorFails", "connectStart"}
MicOps == {"toggleMic", "micNoSession", "micNoTrack"}
Live == {t \in Sessions : transport[t] \in {"idle", "connected"}}

\* C1: a connect() call made with an empty credential creates no session
\* object, starts no device initialisation and no session open, and leaves the
\* Connection Status Disconnected when it returns.
C1_EmptyCredentialOpensNothing ==
  [][(lastOp' \in ConnectOps /\ apiKey = "")
       => /\ transport' = transport
          /\ connectTask' = connectTask
          /\ rtviClient' = rtviClient
          /\ StatusOf(dom'.connectionStatus) = "Disconnected"]_vars

C1_Witness ==
  /\ lastOp = "connectNoKey"
  /\ apiKey = ""
  /\ dom.statusText = "Please enter API key"
  /\ Status = "Disconnected"

\* C2 (as claimed): a connect() call made while the Connection Status is
\* Connecting or Connected creates no session object and changes no status.
C2_ConnectIsNoOpWhenBusy ==
  [][(lastOp' \in ConnectOps /\ Status \in {"Connecting", "Connected"})
       => /\ transport' = transport
          /\ rtviClient' = rtviClient
          /\ dom'.connectionStatus = dom.connectionStatus]_vars

\* C3 (as claimed): when a disconnect() call made with a handle returns,
\* whether the release resolved or rejected, the handle is cleared, the audio
\* context is released and the Connection Status is Disconnected.
C3_DisconnectAlwaysClears ==
  lastOp \in {"disconnectDone", "disconnectFailed"}
    => /\ rtviClient = Null
       /\ ~audioContext
       /\ Status = "Disconnected"

\* C4 (as claimed): when a connect() call fails after the credential check,
\* its catch block leaves the Connection Status Disconnected and, when the
\* session that call built is still open, starts a release of that session; a
\* rejected release ends the call without touching the status.
C4_FailedConnectReleasesItsSession ==
  [][\A s \in Sessions :
       /\ (/\ lastOp' = "connectFailed"
           /\ connectTask[s].pc \in {"initDevices", "open", "opened"}
           /\ connectTask'[s] # connectTask[s])
            => /\ StatusOf(dom'.connectionStatus) = "Disconnected"
               /\ s \in Live => connectTask'[s] = [pc |-> "cleanup", target |-> s]
       /\ (/\ lastOp' = "cleanupFailed"
           /\ connectTask[s].pc = "cleanup"
           /\ connectTask'[s] # connectTask[s])
            => /\ connectTask'[s] = Done
               /\ dom' = dom]_vars

\* C5 (as claimed): once a failed connect() has returned, no session handle
\* is held.
C5_FailedConnectDropsHandle ==
  (/\ lastOp \in {"connectFailed", "cleanupDone", "cleanupFailed", "connectCtorFails"}
   /\ \A s \in Sessions : connectTask[s].pc = "none")
    => rtviClient = Null

\* C6 (as claimed): at most one transport session is created and not released.
C6_AtMostOneLiveSession == Cardinality(Live) <= 1

\* C7 (as claimed): the Connection Status changes only along Disconnected ->
\* Connecting, Connecting -> Connected, Connecting -> Disconnected and
\* Connected -> Disconnected.
AllowedEdges ==
  {<<"Disconnected", "Connecting">>, <<"Connecting", "Connected">>,
   <<"Connecting", "Disconnected">>, <<"Connected", "Disconnected">>}

C7_StatusEdges ==
  \A i \in 1..(Len(obs) - 1) :
    \/ StatusOf(obs[i]) = StatusOf(obs[i + 1])
    \/ <<StatusOf(obs[i]), StatusOf(obs[i + 1])>> \in AllowedEdges

\* C8 (as claimed): a connect() call with an empty credential, made while the
\* Connection Status is Disconnected, never writes Connecting.
C8_EmptyCredentialNeverConnecting ==
  (lastOp = "connectNoKey" /\ StatusOf(obs[1]) = "Disconnected")
    => \A i \in DOMAIN obs : StatusOf(obs[i]) # "Connecting"

\* C9 (as claimed): when the transport reports the session connected, the
\* local audio track of the session the handle holds is not enabled.
C9_MutedWhenConnected ==
  lastOp = "onConnected" => localAudio # "enabled"

\* C10: with a handle and a local audio track, toggleMicrophone() inverts the
\* track's enabled flag, the status text is "Listening..." when the track is
\* now enabled and "Microphone muted" when it is now disabled, and a second
\* call right after the first restores the flag the first one found.
C10_ToggleFlipsOnce ==
  [][(lastOp' \in MicOps /\ rtviClient # Null /\ localAudio # "absent")
       => /\ localAudio' # localAudio
          /\ localAudio' \in {"enabled", "disabled"}
          /\ dom'.statusText = IF localAudio' = "enabled" THEN "Listening..."
                                                          ELSE "Microphone muted"
          /\ (lastOp = "toggleMic" => localAudio' = micBefore)]_vars

C10_Witness ==
  /\ lastOp = "toggleMic"
  /\ micBefore = "enabled"
  /\ localAudio = "disabled"
  /\ dom.statusText = "Microphone muted"

\* C11: a toggleMicrophone() call made while no handle is held changes neither
\* the microphone state, the Connection Status, the handle, the status text
\* nor the remote audio binding.
C11_MicWithoutSessionChangesNothing ==
  [][(lastOp' \in MicOps /\ rtviClient = Null)
       => /\ localAudio' = localAudio
          /\ dom' = dom
          /\ rtviClient' = rtviClient
          /\ botAudio' = botAudio]_vars

C11_Witness ==
  /\ lastOp = "micNoSession"
  /\ rtviClient = Null
  /\ botAudio # NoTrack
  /\ ~dom.micDisabled

\* C12 (as claimed): a toggleMicrophone() call alters the enabled flag of the
\* local audio track only while the Connection Status is Connected.
C12_MicOnlyWhileConnected ==
  [][(lastOp' \in MicOps /\ localAudio' # localAudio) => Status = "Connected"]_vars

\* C13: toggleMicrophone() changes neither the Connection Status nor the
\* handle, in any state in which it is called.
C13_MicKeepsStatusAndHandle ==
  [][lastOp' \in MicOps
       => /\ dom'.connectionStatus = dom.connectionStatus
          /\ dom'.statusDot = dom.statusDot
          /\ rtviClient' = rtviClient]_vars

C13_Witness ==
  /\ lastOp = "toggleMic"
  /\ localAudio = "enabled"
  /\ Status = "Connected"
  /\ rtviClient # Null

\* C14 (as claimed): after a track-started event for a non-local audio track
\* the status text says the bot is speaking, and the track bound to the audio
\* element is at all times the non-local audio track that started last.
C14_BoundIsLastStarted ==
  /\ lastOp = "trackStarted.remoteAudio" => dom.statusText = "Bot is speaking..."
  /\ lastRemote # NoTrack => botAudio = lastRemote

\* C15: a track-stopped event for a non-local audio track writes the status
\* text "Ready" and nothing else: the Connection Status, the handle, the
\* sessions, the microphone state and the bound track stay as they were.
C15_TrackStoppedOnlySetsText ==
  [][lastOp' = "trackStopped.remoteAudio"
       => /\ dom' = [dom EXCEPT !.statusText = "Ready"]
          /\ rtviClient' = rtviClient
          /\ transport' = transport
          /\ connectTask' = connectTask
          /\ disconnectTask' = disconnectTask
          /\ localAudio' = localAudio
          /\ botAudio' = botAudio]_vars

C15_Witness ==
  /\ lastOp = "trackStopped.remoteAudio"
  /\ dom.statusText = "Ready"
  /\ Status = "Connected"
  /\ botAudio # NoTrack
  /\ localAudio = "enabled"

\* C16: a track-started or track-stopped event for a local track or for a
\* track that is not audio changes neither the bound track, the status text,
\* the Connection Status nor the microphone state.
C16_OtherTrackEventsIgnored ==
  [][lastOp' \in {"trackStarted.local", "trackStarted.nonAudio",
                  "trackStopped.local", "trackStopped.nonAudio"}
       => /\ botAudio' = botAudio
          /\ dom' = dom
          /\ localAudio' = localAudio]_vars

C16_Witness ==
  /\ lastOp = "trackStarted.nonAudio"
  /\ botAudio # NoTrack
  /\ dom.statusText = "Listening..."

\* C17: every session whose device initialisation or open has begun, and
\* every session whose transport is open, has the track listeners attached.
C17_ListenersBeforeOpen ==
  \A s \in Sessions :
    /\ s \in Live => s \in listeners
    /\ (connectTask[s].pc \in {"initDevices", "open", "opened"}
          /\ connectTask[s].target \in Live)
         => connectTask[s].target \in listeners

C17_Witness ==
  /\ lastOp = "trackStarted.remoteAudio"
  /\ \E s \in Sessions : connectTask[s].pc = "opened" /\ connectTask[s].target \in listeners

BeConcise == <<"B", "e", " ", "c", "o", "n", "c", "i", "s", "e">>

NoInstruction == {Undefined, Text(<<>>)}

\* C18: the descriptor connect() builds starts with bot_type and api_key; for
\* the composite variant without instruction text it is exactly bot_type,
\* api_key, tts_voice, tts_pace, llm_model, stt_model, stt_language with the
\* fixed values; for the direct-live variant the next five parameters are
\* model, voice, language, tts, tts_pace with the fixed values, and the text
\* "Be concise" follows as system_instruction=Be%20concise.
C18_DescriptorByVariant ==
  lastOp = "connectStart"
    => /\ SubSeq(connectUrl, 1, 4) = <<"/connect?bot_type=", activeTab, "&api_key=", apiKey>>
       /\ (activeTab = "tts-llm-stt" /\ systemPrompt \in NoInstruction)
            => connectUrl = <<"/connect?bot_type=", "tts-llm-stt", "&api_key=", apiKey,
                              "&tts_voice=en-US-Chirp3-HD-Aoede", "&tts_pace=1.0",
                              "&llm_model=gemini-2.5-flash-lite-preview-06-17",
                              "&stt_model=chirp_3", "&stt_language=en-IN">>
       /\ activeTab = "gemini-live"
            => SubSeq(connectUrl, 5, 9) =
                 <<"&model=gemini-live-2.5-flash-preview", "&voice=Custom-Female",
                   "&language=hi-IN", "&tts=true", "&tts_pace=1.0">>
       /\ systemPrompt = Text(BeConcise)
            => SubSeq(connectUrl, 10, Len(connectUrl)) =
                 <<"&system_instruction=", "B", "e", "%20", "c", "o", "n", "c", "i", "s", "e">>

C18_Witness ==
  /\ lastOp = "connectStart"
  /\ activeTab = "gemini-live"
  /\ apiKey = "abc123"
  /\ systemPrompt = Text(BeConcise)
  /\ Len(connectUrl) = 20

HasInstruction(url) == \E i \in DOMAIN url : url[i] = "&system_instruction="

\* C19: the descriptor of every client connect() builds has the credential
\* and the five parameters of the variant; it has a system_instruction
\* parameter exactly when a non-empty text had been loaded, as its last
\* parameter, and none while the configuration fetch is pending or has failed.
C19_InstructionIffLoaded ==
  lastOp = "connectStart"
    => /\ connectUrl[3] = "&api_key=" /\ connectUrl[4] = apiKey /\ apiKey # ""
       /\ SubSeq(connectUrl, 5, 9) = VariantParams(connectUrl[2])
       /\ HasInstruction(connectUrl) <=> (systemPrompt.defined /\ systemPrompt.text # <<>>)
       /\ HasInstruction(connectUrl)
            => /\ connectUrl[10] = "&system_instruction="
               /\ \A i \in 11..Len(connectUrl) :
                    connectUrl[i] \notin {"&", "=", " ", "?", "&system_instruction="}
       /\ ~HasInstruction(connectUrl) => Len(connectUrl) = 9
       /\ systemPrompt = Undefined => ~HasInstruction(connectUrl)

C19_Witness ==
  /\ lastOp = "connectStart"
  /\ configTask = "settled"
  /\ systemPrompt = Text(<<>>)
  /\ Len(connectUrl) = 9

\* C20: selecting a variant changes the stored selection and nothing else
\* (not the Connection Status, the handle, the sessions, the microphone state
\* or the descriptor of the client built last), and the descriptor connect()
\* builds carries the variant selected when connect() is called.
C20_SelectionTakesEffectOnNextConnect ==
  [][/\ lastOp' = "selectBotType"
          => /\ dom' = dom
             /\ rtviClient' = rtviClient
             /\ transport' = transport
             /\ localAudio' = localAudio
             /\ connectUrl' = connectUrl
     /\ lastOp' = "connectStart" => connectUrl'[2] = activeTab]_vars

C20_Witness ==
  /\ lastOp = "selectBotType"
  /\ Status = "Connected"
  /\ rtviClient # Null
  /\ connectUrl # <<>>
  /\ connectUrl[2] # activeTab

ErrorOps == {"onError", "onMessageError"}

\* C21: an error or message-error notification from the transport changes
\* neither the Connection Status, the handle, the sessions, the microphone
\* state nor the bound track: it forces no disconnect.
C21_ErrorsForceNoDisconnect ==
  [][lastOp' \in ErrorOps
       => /\ dom'.connectionStatus = dom.connectionStatus
          /\ dom'.statusDot = dom.statusDot
          /\ dom'.micDisabled = dom.micDisabled
          /\ rtviClient' = rtviClient
          /\ transport' = transport
          /\ disconnectTask' = disconnectTask
          /\ localAudio' = localAudio
          /\ botAudio' = botAudio]_vars

C21_Witness ==
  /\ lastOp \in ErrorOps
  /\ Status = "Connected"
  /\ rtviClient # Null
  /\ transport[rtviClient] = "connected"
  /\ localAudio = "enabled"
  /\ botAudio # NoTrack

\* C22 (as claimed): whenever the Connection Status shown is Disconnected or
\* Connecting, the microphone button is disabled.
C22_MicButtonOnlyWhileConnected ==
  Status \in {"Disconnected", "Connecting"} => dom.micDisabled

\* disconnect() has just been called on session t, after n clicks, while the
\* connect() call that built t is suspended and the status is Connecting.
InterruptedAt(t, n) ==
  /\ lastOp = "disconnect"
  /\ clicks = n
  /\ rtviClient = t
  /\ Status = "Connecting"
  /\ connectTask[t].pc \in {"initDevices", "open"}

\* The connect() call that built t and every disconnect() of t have returned,
\* and the button has not been clicked since.
BothReturned(t, n) ==
  /\ clicks = n
  /\ connectTask[t].pc = "none"
  /\ disconnectTask[t] = 0

\* C23 (as claimed): when disconnect() is called while a connect attempt is
\* Connecting, then once both calls have returned the Connection Status is
\* Disconnected, no handle is held and the session of the interrupted attempt
\* is not open.
C23_InterruptedConnectEndsDisconnected ==
  \A t \in Sessions, n \in 1..InterruptClicks :
    [](InterruptedAt(t, n)
         => [](BothReturned(t, n)
                 => /\ Status = "Disconnected"
                    /\ rtviClient = Null
                    /\ transport[t] = "none"))

\* C24: when every transport promise is settled in the end, every connect()
\* call that passed the credential check returns, the Connection Status does
\* not stay Connecting, and the indicator shows one of the three states at all
\* times.
C24_ConnectSettles ==
  /\ [](dom.connectionStatus \in {"Not Connected", "Connecting...", "Connected"})
  /\ (Status = "Connecting") ~> (Status \in {"Connected", "Disconnected"})
  /\ \A s \in Sessions : (connectTask[s].pc # "none") ~> (connectTask[s].pc = "none")

C24_Witness ==
  /\ lastOp = "connectFailed"
  /\ obs = <<"Connecting...", "Not Connected">>
  /\ \E s \in Sessions : connectTask[s].pc = "cleanup"

\* C25 (as claimed): whenever the Connection Status is Connected, a handle is
\* held.
C25_ConnectedHasHandle ==
  Status = "Connected" => rtviClient # Null

\* No connect() or disconnect() call is suspended.
Quiescent ==
  \A s \in Sessions : connectTask[s].pc = "none" /\ disconnectTask[s] = 0

\* C26 (as claimed): when the transport ends the session by itself and no call
\* is suspended, the Connection Status is Disconnected and no handle is held,
\* so that the next toggle calls connect().
C26_DroppedSessionLeavesNoHandle ==
  (lastOp = "onDisconnected" /\ Quiescent)
    => /\ Status = "Disconnected"
       /\ rtviClient = Null

\* C27 (as claimed): at most one AudioContext is created and not closed, and
\* none is in a state with no handle and no call suspended: a connect() that
\* returns on an empty credential or fails leaves none, and repeated connect()
\* calls do not accumulate them.
C27_AtMostOneAudioContext ==
  /\ openContexts <= 1
  /\ (Quiescent /\ rtviClient = Null) => (openContexts = 0 /\ ~audioContext)

====
